---------------------------- MODULE Spec2Model ----------------------------
(***************************************************************************)
(* bunyan-debug-stream: the entry-to-text renderer (BunyanDebugStream) and *)
(* its Writable stream adapter, with the helpers of utils.ts.              *)
(*                                                                         *)
(* Text is a TLA+ string (Len, \o and SubSeq act on strings).  A           *)
(* JavaScript value is a record [t, s, n, f] of one shape: t is the type   *)
(* tag, s the text of a string, n the number (or the seconds of a Date),   *)
(* f the own enumerable properties of an object, in insertion order, as a  *)
(* sequence of <<name, value>> pairs.                                      *)
(***************************************************************************)
EXTENDS Integers, Sequences, FiniteSets, TLC

VARIABLES
    cfg,        \* the options handed to the constructor, and the environment
    opts,       \* the fields the constructor resolves (this._xxx)
    now,        \* the wall clock read by `new Date()`
    written,    \* every chunk handed to stream.write(), in arrival order
    buffered,   \* Writable's buffer: chunks accepted while a _write is open
    writing,    \* Writable's state.writing: a _write was started, done() not yet called
    sink,       \* the texts this._out.write() received, in order
    sinkReady,  \* what the sink's last write() returned (FALSE until 'drain')
    doneCalls,  \* the number of times a _write called done()
    events,     \* what _write did, in program order
    thrown,     \* the exception that left the last stream.write() (or "")
    renders,    \* the number of direct calls of _entryToString so far
    lastEntry,  \* the argument of the last _entryToString call
    last        \* the outcome of the last _entryToString call

vars == <<cfg, opts, now, written, buffered, writing, sink, sinkReady,
          doneCalls, events, thrown, renders, lastEntry, last>>

---------------------------------------------------------------------------
(* JavaScript values                                                       *)

JV(t, s, n, f) == [t |-> t, s |-> s, n |-> n, f |-> f]
Undef == JV("undefined", "", 0, <<>>)
Null == JV("null", "", 0, <<>>)
Str(x) == JV("string", x, 0, <<>>)
Num(k) == JV("number", "", k, <<>>)
Bool(b) == JV("boolean", "", IF b THEN 1 ELSE 0, <<>>)
Obj(fields) == JV("object", "", 0, fields)
\* An array of values: an object whose properties are its indices.
Arr(fields) == JV("array", "", 0, fields)
\* A Date, as the seconds since the start of a (non leap) year, local time.
DateV(k) == JV("date", "", k, <<>>)
\* A value JSON.stringify maps to undefined (a function), and one it throws on.
FnV == JV("function", "", 0, <<>>)
Circular == JV("circular", "", 0, <<>>)

\* x == null
IsNullish(v) == v.t \in {"undefined", "null"}

\* !!x
Truthy(v) ==
    CASE v.t \in {"undefined", "null"} -> FALSE
      [] v.t = "string" -> v.s # ""
      [] v.t \in {"number", "boolean"} -> v.n # 0
      [] OTHER -> TRUE

\* The own property names of an object, in enumeration order.
Keys(o) == [i \in 1..Len(o.f) |-> o.f[i][1]]
KeySet(o) == {o.f[i][1] : i \in 1..Len(o.f)}

\* o[k]: the property's value, undefined when o has no such property (or is
\* a primitive).  Never applied to null or undefined: the code guards those.
Get(o, k) ==
    IF \E i \in 1..Len(o.f) : o.f[i][1] = k
    THEN o.f[CHOOSE i \in 1..Len(o.f) : o.f[i][1] = k][2]
    ELSE Undef

---------------------------------------------------------------------------
(* Text helpers                                                            *)

Digit(d) == SubSeq("0123456789", d + 1, d + 1)

RECURSIVE NumToStr(_)
\* '' + n for an integer n.
NumToStr(n) ==
    IF n < 0 THEN "-" \o NumToStr(-n)
    ELSE IF n < 10 THEN Digit(n)
    ELSE NumToStr(n \div 10) \o Digit(n % 10)

RECURSIVE JoinFrom(_, _, _)
JoinFrom(seq, sep, i) ==
    IF i > Len(seq) THEN ""
    ELSE IF i = Len(seq) THEN seq[i]
    ELSE seq[i] \o sep \o JoinFrom(seq, sep, i + 1)

\* Array.prototype.join on an array of strings.
Join(seq, sep) == JoinFrom(seq, sep, 1)

\* The first index >= i at which `sub` occurs in s, 0 when there is none.
RECURSIVE IndexFrom(_, _, _)
IndexFrom(s, sub, i) ==
    IF i + Len(sub) - 1 > Len(s) THEN 0
    ELSE IF SubSeq(s, i, i + Len(sub) - 1) = sub THEN i
    ELSE IndexFrom(s, sub, i + 1)

Contains(s, sub) == IndexFrom(s, sub, 1) # 0

\* String.prototype.split on a one-character separator.
RECURSIVE Split(_, _)
Split(s, sep) ==
    LET i == IndexFrom(s, sep, 1)
    IN  IF i = 0 THEN <<s>>
        ELSE <<SubSeq(s, 1, i - 1)>> \o Split(SubSeq(s, i + 1, Len(s)), sep)

\* s.replace(/\n/g, rep)
RECURSIVE ReplaceNL(_, _)
ReplaceNL(s, rep) ==
    LET i == IndexFrom(s, "\n", 1)
    IN  IF i = 0 THEN s
        ELSE SubSeq(s, 1, i - 1) \o rep \o ReplaceNL(SubSeq(s, i + 1, Len(s)), rep)

\* s.replace(pat, rep) with a string pattern: the first occurrence only.
ReplaceFirst(s, pat, rep) ==
    LET i == IndexFrom(s, pat, 1)
    IN  IF i = 0 \/ pat = "" THEN (IF pat = "" THEN rep \o s ELSE s)
        ELSE SubSeq(s, 1, i - 1) \o rep \o SubSeq(s, i + Len(pat), Len(s))

\* s.slice(0, n) for any integer n (a negative n counts from the end).
Slice0(s, n) ==
    LET m == IF n < 0 THEN Len(s) + n ELSE n
    IN  IF m <= 0 THEN "" ELSE IF m >= Len(s) THEN s ELSE SubSeq(s, 1, m)

RECURSIVE ToStr(_)
\* `${v}`, String(v).
ToStr(v) ==
    CASE v.t = "undefined" -> "undefined"
      [] v.t = "null" -> "null"
      [] v.t = "string" -> v.s
      [] v.t = "number" -> NumToStr(v.n)
      [] v.t = "boolean" -> IF v.n = 1 THEN "true" ELSE "false"
      [] v.t = "array" -> Join([i \in 1..Len(v.f) |->
                                   IF IsNullish(v.f[i][2]) THEN ""
                                   ELSE ToStr(v.f[i][2])], ",")
      [] v.t = "date" -> "Date(" \o NumToStr(v.n) \o ")"
      [] v.t = "function" -> "function () {}"
      [] OTHER -> "[object Object]"

---------------------------------------------------------------------------
(* Completions: what a call that may throw produces                        *)

Ok(v) == [threw |-> FALSE, exc |-> Undef, v |-> v]
Throw(e) == [threw |-> TRUE, exc |-> e, v |-> Undef]

\* new Error(message), as thrown by `name`: the V8 stack text starts with
\* the description and goes on with the frames.
ErrorV(name, message) ==
    JV("error", "", 0,
       << <<"message", Str(message)>>,
          <<"stack", Str(name \o ": " \o message \o "\n    at fn (app.js:1:1)")>> >>)

---------------------------------------------------------------------------
(* utils.ts                                                                *)

RECURSIVE lpad(_, _, _)
lpad(str, count, fill) ==
    IF Len(str) < count THEN lpad(fill \o str, count, fill) ELSE str

MONTHS == <<"Jan", "Feb", "Mar", "Apr", "May", "Jun",
            "Jul", "Aug", "Sep", "Oct", "Nov", "Dec">>

\* The days before each month of a non leap year.
DaysBefore == <<0, 31, 59, 90, 120, 151, 181, 212, 243, 273, 304, 334, 365>>

\* Date.prototype.getMonth (0 based), getDate, getHours, getMinutes, getSeconds
getMonth(d) ==
    (CHOOSE m \in 1..12 :
        /\ DaysBefore[m] <= ((d.n \div 86400) % 365)
        /\ ((d.n \div 86400) % 365) < DaysBefore[m + 1]) - 1
getDate(d) == ((d.n \div 86400) % 365) - DaysBefore[getMonth(d) + 1] + 1
getHours(d) == (d.n % 86400) \div 3600
getMinutes(d) == (d.n % 3600) \div 60
getSeconds(d) == d.n % 60

\* Convert a date into a syslog style "Nov 6 10:30:21".  The result is a
\* JavaScript value: a falsy argument is returned as it is.
dateToString(date) ==
    IF ~Truthy(date) THEN date
    ELSE IF date.t = "date" THEN
        LET time == Join(<<lpad(NumToStr(getHours(date)), 2, "0"),
                           lpad(NumToStr(getMinutes(date)), 2, "0"),
                           lpad(NumToStr(getSeconds(date)), 2, "0")>>, ":")
        IN  Str(Join(<<MONTHS[getMonth(date) + 1],
                       NumToStr(getDate(date)), time>>, " "))
    ELSE Str(ToStr(date))

\* chalk's styles: the escape sequence that opens and the one that closes.
ChalkCodes ==
    [grey |-> <<"ESC[90m", "ESC[39m">>, cyan |-> <<"ESC[36m", "ESC[39m">>,
     green |-> <<"ESC[32m", "ESC[39m">>, yellow |-> <<"ESC[33m", "ESC[39m">>,
     red |-> <<"ESC[31m", "ESC[39m">>, magenta |-> <<"ESC[35m", "ESC[39m">>,
     bold |-> <<"ESC[1m", "ESC[22m">>]

\* chalk[color](text) at the given chalk.level: nothing at level 0, else the
\* text between the style's codes, closed and reopened around line breaks.
chalkApply(color, text, level) ==
    IF level = 0 \/ text = "" THEN text
    ELSE ChalkCodes[color][1]
         \o ReplaceNL(text, ChalkCodes[color][2] \o "\n" \o ChalkCodes[color][1])
         \o ChalkCodes[color][2]

\* A color list as a lookup yields it: a list, or undefined.
ColorList(l) == [defined |-> TRUE, list |-> l]
NoColorList == [defined |-> FALSE, list |-> <<>>]

RECURSIVE applyColorsFrom(_, _, _, _)
applyColorsFrom(text, list, i, level) ==
    IF i > Len(list) THEN text
    ELSE applyColorsFrom(chalkApply(list[i], text, level), list, i + 1, level)

\* Applies one or more colors to a message, and returns the colorized
\* message.  `for (const color of colorList)` throws on an undefined list,
\* and c[color] is not a function for a name chalk does not know.
applyColors(message, colorList, level) ==
    IF IsNullish(message) THEN Ok(message)
    ELSE IF ~colorList.defined
        THEN Throw(ErrorV("TypeError", "colorList is not iterable"))
    ELSE IF \E i \in 1..Len(colorList.list) :
                colorList.list[i] \notin DOMAIN ChalkCodes
        THEN Throw(ErrorV("TypeError", "c[color] is not a function"))
    ELSE Ok(Str(applyColorsFrom(ToStr(message), colorList.list, 1, level)))

\* path.sep of the platform
PathSep == "/"

endsWith(str, suffix) ==
    Len(str) >= Len(suffix)
    /\ SubSeq(str, Len(str) - Len(suffix) + 1, Len(str)) = suffix

\* The last index of the one-character `ch` in s, 0 when there is none.
RECURSIVE LastIndexOf(_, _, _)
LastIndexOf(s, ch, i) ==
    IF i = 0 THEN 0
    ELSE IF SubSeq(s, i, i) = ch THEN i
    ELSE LastIndexOf(s, ch, i - 1)

\* path.extname of a name without separators: from its last '.', unless
\* that is its first character or it has none.
extname(file) ==
    LET i == LastIndexOf(file, ".", Len(file))
    IN  IF i <= 1 THEN "" ELSE SubSeq(file, i, Len(file))

\* path.basename(file, ext) of a name without separators.
basename(file, ext) ==
    IF ext # "" /\ ext # file /\ endsWith(file, ext)
    THEN SubSeq(file, 1, Len(file) - Len(ext))
    ELSE file

\* Transforms "/src/foo/bar.coffee" to "/s/f/bar".
\* Transforms "/src/foo/index.coffee" to "/s/foo/".
\* basepath is a string, "" when none is given.
toShortFilename(filename0, basepath0, replacement) ==
    LET basepath == IF basepath0 # "" /\ ~endsWith(basepath0, PathSep)
                    THEN basepath0 \o PathSep ELSE basepath0
        filename == IF basepath0 # ""
                    THEN ReplaceFirst(filename0, basepath, replacement)
                    ELSE filename0
        parts == Split(filename, PathSep)
        n == Len(parts)
        file == basename(parts[n], extname(parts[n]))
        \* the 0-based index of the source, as a 1-based bound
        shortenIndex == IF file = "index" THEN n - 3 ELSE n - 2
        short == [i \in 1..n |->
                    IF i = n THEN (IF file = "index" THEN "" ELSE file)
                    ELSE IF i - 1 <= shortenIndex
                        THEN (IF parts[i] = "" THEN "" ELSE SubSeq(parts[i], 1, 1))
                    ELSE parts[i]]
    IN  Join(short, "/")

\* answer, in srcToString, from src.func and the text `file`
srcAnswer(func, file) ==
    IF ~IsNullish(func) /\ file # "" THEN ToStr(func) \o " (" \o file \o ")"
    ELSE IF ~IsNullish(func) THEN ToStr(func)
    ELSE file

\* Transforms a bunyan `src` object (a `{file, line, func}` object) into a
\* human readable string.  replacement is a JavaScript value: the default
\* './' stands in for undefined.
srcToString(src, basepath, replacement0) ==
    IF IsNullish(src) THEN ""
    ELSE srcAnswer(Get(src, "func"),
            (IF ~IsNullish(Get(src, "file"))
             THEN toShortFilename(ToStr(Get(src, "file")), basepath,
                                  IF replacement0.t = "undefined" THEN "./"
                                  ELSE ToStr(replacement0))
             ELSE "")
            \o (IF ~IsNullish(Get(src, "line"))
                THEN ":" \o ToStr(Get(src, "line")) ELSE ""))

---------------------------------------------------------------------------
(* JSON                                                                    *)

\* The text of one character inside a JSON string literal.
JsonChar(c) ==
    CASE c = "\"" -> "\\\""
      [] c = "\\" -> "\\\\"
      [] c = "\n" -> "\\n"
      [] OTHER -> c

RECURSIVE JsonQuoteFrom(_, _)
JsonQuoteFrom(s, i) ==
    IF i > Len(s) THEN ""
    ELSE JsonChar(SubSeq(s, i, i)) \o JsonQuoteFrom(s, i + 1)

JsonQuote(s) == "\"" \o JsonQuoteFrom(s, 1) \o "\""

\* Date.prototype.toISOString, the year fixed and local time taken as UTC.
toISOString(d) ==
    "2018-" \o lpad(NumToStr(getMonth(d) + 1), 2, "0") \o "-"
    \o lpad(NumToStr(getDate(d)), 2, "0") \o "T"
    \o lpad(NumToStr(getHours(d)), 2, "0") \o ":"
    \o lpad(NumToStr(getMinutes(d)), 2, "0") \o ":"
    \o lpad(NumToStr(getSeconds(d)), 2, "0") \o ".000Z"

RECURSIVE JsonThrows(_)
\* JSON.stringify(v) throws a TypeError: v holds a circular reference.
JsonThrows(v) ==
    \/ v.t = "circular"
    \/ \E i \in 1..Len(v.f) : v.t \in {"object", "array"} /\ JsonThrows(v.f[i][2])

\* JSON.stringify(v) is undefined.
JsonUndefined(v) == v.t \in {"undefined", "function"}

RECURSIVE JsonText(_)
\* JSON.stringify(v) for a value it neither throws on nor maps to undefined.
JsonText(v) ==
    CASE v.t = "null" -> "null"
      [] v.t = "string" -> JsonQuote(v.s)
      [] v.t = "number" -> NumToStr(v.n)
      [] v.t = "boolean" -> IF v.n = 1 THEN "true" ELSE "false"
      [] v.t = "date" -> JsonQuote(toISOString(v))
      [] v.t = "array" ->
            "[" \o Join([i \in 1..Len(v.f) |->
                            IF JsonUndefined(v.f[i][2]) THEN "null"
                            ELSE JsonText(v.f[i][2])], ",") \o "]"
      [] v.t = "object" ->
            LET kept == SelectSeq(v.f, LAMBDA p : ~JsonUndefined(p[2]))
            IN  "{" \o Join([i \in 1..Len(kept) |->
                                JsonQuote(kept[i][1]) \o ":" \o JsonText(kept[i][2])],
                            ",") \o "}"
      [] OTHER -> "{}"

\* JSON.stringify(v): a completion whose value is a string or undefined.
JSONstringify(v) ==
    IF JsonThrows(v)
        THEN Throw(ErrorV("TypeError", "Converting circular structure to JSON"))
    ELSE IF JsonUndefined(v) THEN Ok(Undef)
    ELSE Ok(Str(JsonText(v)))

RECURSIVE JsonSafe(_)
\* What JSON.parse(JSON.stringify(v)) is: Dates are strings, properties
\* without a JSON form are gone.
JsonSafe(v) ==
    CASE v.t = "date" -> Str(toISOString(v))
      [] v.t = "object" ->
            LET kept == SelectSeq(v.f, LAMBDA p : ~JsonUndefined(p[2]))
            IN  Obj([i \in 1..Len(kept) |-> <<kept[i][1], JsonSafe(kept[i][2])>>])
      [] v.t = "array" ->
            Arr([i \in 1..Len(v.f) |->
                    <<v.f[i][1], IF JsonUndefined(v.f[i][2]) THEN Null
                                 ELSE JsonSafe(v.f[i][2])>>])
      [] v.t = "error" -> Obj(<<>>)
      [] OTHER -> v

---------------------------------------------------------------------------
(* BunyanDebugStream: tables                                               *)

\* bunyan's level constants, by name
BunyanLevel ==
    [TRACE |-> 10, DEBUG |-> 20, INFO |-> 30, WARN |-> 40, ERROR |-> 50, FATAL |-> 60]

\* A list of various properties for the different bunyan levels, keyed (as
\* the properties of a JavaScript object are) by the level's text.
LEVELS ==
    [k \in {"10", "20", "30", "40", "50", "60"} |->
        CASE k = "10" -> [level |-> 10, prefix |-> "TRACE:", colors |-> <<"grey">>]
          [] k = "20" -> [level |-> 20, prefix |-> "DEBUG:", colors |-> <<"cyan">>]
          [] k = "30" -> [level |-> 30, prefix |-> "INFO: ", colors |-> <<"green">>]
          [] k = "40" -> [level |-> 40, prefix |-> "WARN: ", colors |-> <<"yellow">>]
          [] k = "50" -> [level |-> 50, prefix |-> "ERROR:", colors |-> <<"red">>]
          [] OTHER -> [level |-> 60, prefix |-> "FATAL:", colors |-> <<"magenta">>]]

\* A list of fields to not print, either because they are boring or because
\* we explicitly pull them out and format them in some special way.
FIELDS_TO_IGNORE ==
    <<"src", "msg", "name", "hostname", "pid", "level", "time", "v", "err">>

\* No list of flattened fields
NoFlattenedFields == <<>>

\* express-bunyan-logger adds a bunch of fields to the `req`.
EXPRESS_BUNYAN_LOGGER_FIELDS ==
    <<"remote-address", "ip", "method", "url", "referer", "user-agent", "body",
      "short-body", "http-version", "response-hrtime", "status-code",
      "req-headers", "res-headers", "incoming", "req_id">>

\* The properties every `{}` inherits from Object.prototype: consumed[key]
\* is truthy for these names whether or not the render set them.
ObjectPrototypeKeys ==
    {"constructor", "toString", "toLocaleString", "valueOf", "hasOwnProperty",
     "isPrototypeOf", "propertyIsEnumerable", "__proto__"}

Range(seq) == {seq[i] : i \in 1..Len(seq)}

\* An array of strings as a JavaScript value, and back.
ArrStr(seq) == Arr([i \in 1..Len(seq) |-> <<NumToStr(i - 1), Str(seq[i])>>])
Elems(a) == [i \in 1..Len(a.f) |-> a.f[i][2]]

---------------------------------------------------------------------------
(* Transforms: the stringifier and prefixer functions a caller configures  *)

(* A transform is [kind, ret]:                                             *)
(*   "null"      no function: the table holds null for the field           *)
(*   "const"     a function that returns ret, whatever it is given         *)
(*   "identity"  x => x                                                    *)
(*   "double"    y => y + y                                                *)
(*   "name"      account => account != null ? account.name : undefined     *)
(*   "throw"     a function that throws ret                                *)
(*   "req", "err"  stdStringifiers.req and stdStringifiers.err             *)
Tr(kind, ret) == [kind |-> kind, ret |-> ret]
NullTr == Tr("null", Null)

\* The structured result {consumed, value, replaceMessage} of a transform;
\* a property is left out when its argument is undefined.
Structured(consumed, value, replaceMessage) ==
    Obj(SelectSeq(<< <<"consumed", consumed>>, <<"value", value>>,
                     <<"replaceMessage", replaceMessage>> >>,
                  LAMBDA p : p[2].t # "undefined"))

\* formatException of ./exceptionUtils: the exception's message and frames
\* as one block of text.
formatException(err, color, maxLines, basePath) ==
    IF ~IsNullish(Get(err, "stack")) THEN Str(ToStr(Get(err, "stack")))
    ELSE Str(ToStr(Get(err, "message")))

\* a || b
OrElse(a, b) == IF Truthy(a) THEN a ELSE b

\* replaceMessage without its second operand
replaceMessageNoMsg(entry) == ~Truthy(Get(entry, "msg"))

\* If there's no message, then replace the message with the request
replaceMessage(entry) ==
    \/ ~Truthy(Get(entry, "msg"))
    \/ Get(entry, "msg") = Str("request finish") \* bunyan-middleware

\* stdStringifiers.req
stdStringifiersReq(req, entry, useColor, level) ==
    LET res == Get(entry, "res")
        express ==
            /\ ~IsNullish(Get(entry, "status-code"))
            /\ ~IsNullish(Get(entry, "method"))
            /\ ~IsNullish(Get(entry, "url"))
            /\ ~IsNullish(Get(entry, "res-headers"))
        consumed0 == <<"req", "res">>
                     \o (IF express THEN EXPRESS_BUNYAN_LOGGER_FIELDS ELSE <<>>)
        \* Get the statusCode
        statusCode == IF ~IsNullish(Get(res, "statusCode"))
                      THEN Get(res, "statusCode") ELSE Get(entry, "status-code")
        statusColor == IF statusCode.n < 200 THEN "grey"
                       ELSE IF statusCode.n < 400 THEN "green" ELSE "red"
        status ==
            IF IsNullish(statusCode) THEN ""
            ELSE IF useColor
                THEN chalkApply("bold",
                                chalkApply(statusColor, ToStr(statusCode), level),
                                level)
            ELSE ToStr(statusCode)
        \* Get the response time
        timeFrom ==
            IF ~IsNullish(Get(res, "responseTime")) THEN "res"
            ELSE IF ~IsNullish(Get(entry, "duration")) THEN "duration"
            ELSE IF ~IsNullish(Get(entry, "response-time")) THEN "response-time"
            ELSE "none"
        consumed1 == consumed0
                     \o (IF timeFrom \in {"duration", "response-time"}
                         THEN <<timeFrom>> ELSE <<>>)
        responseTime ==
            CASE timeFrom = "res" -> ToStr(Get(res, "responseTime")) \o "ms"
              [] timeFrom = "none" -> ""
              [] OTHER -> ToStr(Get(entry, timeFrom)) \o "ms"
        \* Get the user
        userOf(u) == ToStr(OrElse(OrElse(Get(u, "username"), Get(u, "name")), u)) \o "@"
        user == IF Truthy(Get(req, "user")) THEN userOf(Get(req, "user"))
                ELSE IF Truthy(Get(entry, "user")) THEN userOf(Get(entry, "user"))
                ELSE ""
        consumed == consumed1
                    \o (IF ~Truthy(Get(req, "user")) /\ Truthy(Get(entry, "user"))
                        THEN <<"user">> ELSE <<>>)
        \* Get the content length
        contentLength0 == OrElse(Get(Get(res, "headers"), "content-length"),
                                 Get(Get(entry, "res-headers"), "content-length"))
        contentLength == IF ~IsNullish(contentLength0)
                         THEN "- " \o ToStr(contentLength0) \o " bytes" ELSE ""
        host == IF ~IsNullish(Get(req, "headers"))
                THEN OrElse(Get(Get(req, "headers"), "host"), Null) ELSE Null
        url == IF ~IsNullish(host) THEN ToStr(host) \o ToStr(Get(req, "url"))
               ELSE ToStr(Get(req, "url"))
        fields == SelectSeq(<<Get(req, "method"), Str(user \o url), Str(status),
                              Str(responseTime), Str(contentLength)>>, Truthy)
        request == Join([i \in 1..Len(fields) |-> ToStr(fields[i])], " ")
    IN  Structured(ArrStr(consumed), Str(request), Bool(replaceMessage(entry)))

\* stdStringifiers.err
stdStringifiersErr(err, self) ==
    formatException(err, self.useColor, self.options.maxExceptionLines, self.basepath)

\* stringifier(entry[key], {entry, useColor, debugStream}): what the call
\* returns or throws.
CallTransform(tr, value, entry, self) ==
    CASE tr.kind = "const" -> Ok(tr.ret)
      [] tr.kind = "identity" -> Ok(value)
      [] tr.kind = "double" ->
            Ok(IF value.t = "number" THEN Num(value.n + value.n)
               ELSE Str(ToStr(value) \o ToStr(value)))
      [] tr.kind = "name" ->
            Ok(IF ~IsNullish(value) THEN Get(value, "name") ELSE Undef)
      [] tr.kind = "throw" -> Throw(tr.ret)
      [] tr.kind = "req" ->
            Ok(stdStringifiersReq(value, entry, self.useColor, self.chalkLevel))
      [] OTHER -> Ok(stdStringifiersErr(value, self))

---------------------------------------------------------------------------
(* BunyanDebugStream: the constructor                                      *)

LowerCase == "abcdefghijklmnopqrstuvwxyz"
UpperCase == "ABCDEFGHIJKLMNOPQRSTUVWXYZ"

RECURSIVE toUpperCase(_)
toUpperCase(str) ==
    IF str = "" THEN ""
    ELSE LET c == SubSeq(str, 1, 1)
             i == IndexFrom(LowerCase, c, 1)
         IN  (IF i = 0 THEN c ELSE SubSeq(UpperCase, i, i))
             \o toUpperCase(SubSeq(str, 2, Len(str)))

\* path.basename(p, path.extname(p)) of a path
scriptName(p) ==
    LET parts == Split(p, PathSep)
        file == parts[Len(parts)]
    IN  basename(file, extname(file))

\* Replace or append the entry of `key` in a table kept as a sequence of
\* <<key, value>> pairs: an assignment to an object's property keeps the
\* position of a property the object already has.
SetKey(table, key, value) ==
    IF \E i \in 1..Len(table) : table[i][1] = key
    THEN [i \in 1..Len(table) |-> IF table[i][1] = key THEN <<key, value>> ELSE table[i]]
    ELSE Append(table, <<key, value>>)

\* The caller's table first, then the built-in entries it does not name
UserTableFirst(table, more, i) ==
    more \o SelectSeq(table, LAMBDA p : \A j \in 1..Len(more) : more[j][1] # p[1])

RECURSIVE MergeTable(_, _, _)
MergeTable(table, more, i) ==
    IF i > Len(more) THEN table
    ELSE MergeTable(SetKey(table, more[i][1], more[i][2]), more, i + 1)

\* One color of options.colors: a string stands for the list of it alone.
ColorsOf(c) == IF c.t = "string" THEN <<c.s>> ELSE [i \in 1..Len(c.f) |-> c.f[i][2].s]

RECURSIVE AddColors(_, _, _)
\* Add in any colors from the options.
AddColors(colors, object, i) ==
    IF i > Len(object.f) THEN colors
    ELSE
        LET level == object.f[i][1]
            c == ColorsOf(object.f[i][2])
            name == toUpperCase(level)
            levelNumber == IF name \in DOMAIN BunyanLevel
                           THEN NumToStr(BunyanLevel[name]) ELSE "undefined"
        IN  IF level \in DOMAIN colors
                THEN AddColors([colors EXCEPT ![level] = c], object, i + 1)
            ELSE IF levelNumber \in DOMAIN colors
                THEN AddColors([colors EXCEPT ![levelNumber] = c], object, i + 1)
            \* I don't know what to do with this...
            ELSE AddColors(colors, object, i + 1)

\* a != null ? a : b
Default(a, b) == IF ~IsNullish(a) THEN a ELSE b

\* new BunyanDebugStream(options) in the environment env: the fields of
\* `this`, and chalk's level as the constructor leaves it.
Constructor(options, env) ==
    LET bw == options.colors = Bool(FALSE) \/ options.colors = Null
    IN  [options |-> options,
         chalkLevel |-> IF Truthy(options.forceColor) THEN 1 ELSE env.chalkLevel,
         useColor |-> ~bw,
         colors |->
            IF bw THEN [k \in DOMAIN LEVELS |-> <<>>]
            ELSE AddColors([k \in DOMAIN LEVELS |-> LEVELS[k].colors],
                           IF ~IsNullish(options.colors) THEN options.colors
                           ELSE Obj(<<>>), 1),
         processName |->
            IF ~IsNullish(options.processName) THEN ToStr(options.processName)
            ELSE IF Len(env.argv) > 1 THEN scriptName(env.argv[2])
            ELSE IF Len(env.argv) > 0 THEN scriptName(env.argv[1])
            ELSE "",
         stringifiers |->
            MergeTable(<< <<"req", Tr("req", Null)>>, <<"err", Tr("err", Null)>> >>,
                       options.stringifiers, 1),
         \* Initialize some defaults
         prefixers |-> options.prefixers,
         basepath |-> IF ~IsNullish(options.basepath) THEN ToStr(options.basepath)
                      ELSE env.cwd,
         indent |-> IF ~IsNullish(options.indent) THEN ToStr(options.indent) ELSE "  ",
         showDate |-> Default(options.showDate, Bool(TRUE)),
         showLoggerName |-> Truthy(Default(options.showLoggerName, Bool(TRUE))),
         showPid |-> Truthy(Default(options.showPid, Bool(TRUE))),
         showLevel |-> Truthy(Default(options.showLevel, Bool(TRUE))),
         showMetadata |-> Truthy(Default(options.showMetadata, Bool(TRUE))),
         cols |-> env.cols]

---------------------------------------------------------------------------
(* BunyanDebugStream._runStringifier                                       *)

\* consumed[key] as a condition: an own property the render set, or one
\* the object inherits.
IsConsumed(consumed, key) == key \in consumed \/ key \in ObjectPrototypeKeys

\* stringifier(entry[key], {entry, useColor, debugStream}) in the try
\* block: what the call returns or throws; null for no stringifier.
TryStringifier(self, entry, key, stringifier) ==
    IF stringifier.kind = "null" THEN Ok(Null)
    ELSE CallTransform(stringifier, Get(entry, key), entry, self)

\* The names result.consumed lists, for a result that is an object
ConsumedBy(call) ==
    IF ~call.threw /\ ~IsNullish(call.v) /\ call.v.t # "string"
       /\ ~IsNullish(Get(call.v, "consumed"))
    THEN {ToStr(Elems(Get(call.v, "consumed"))[i]) :
            i \in 1..Len(Get(call.v, "consumed").f)}
    ELSE {}

\* The result is an object whose value takes the message's place
Replaces(call) ==
    /\ ~call.threw /\ ~IsNullish(call.v) /\ call.v.t # "string"
    /\ ~IsNullish(Get(call.v, "value"))
    /\ Truthy(Get(call.v, "replaceMessage"))

\* value, before it is indented
ValueOf(call) ==
    IF call.threw
        \* Go back to the original message
        THEN Str("Error running stringifier:\n" \o ToStr(Get(call.exc, "stack")))
    ELSE IF IsNullish(call.v) THEN Null
    ELSE IF call.v.t = "string" THEN call.v
    ELSE IF ~IsNullish(Get(call.v, "value")) /\ ~Replaces(call)
        THEN Get(call.v, "value")
    ELSE Null

\* The result as it is, its line breaks left alone
NotIndented(self, value) ==
    IF ~IsNullish(value) THEN Str(ToStr(value)) ELSE Null

\* Indent the result correctly
Indented(self, value) ==
    IF ~IsNullish(value) THEN Str(ReplaceNL(ToStr(value), "\n" \o self.indent))
    ELSE Null

\* The body of _runStringifier after its first statement, `consumed1`
\* being the consumed fields as that leaves them and `call` what the
\* stringifier returned or threw.
\* Yields [threw, exc, message, value, consumed]: message and value as
\* JavaScript values (value null when there is nothing to show), consumed
\* as the object is left.  threw: the call did not return.
RunStringifierBody(self, consumed1, message, call) ==
    IF call.threw /\ IsNullish(call.exc)
        \* err.stack of null or undefined: the catch block itself throws
        THEN [threw |-> TRUE,
              exc |-> ErrorV("TypeError", "Cannot read properties of "
                             \o ToStr(call.exc) \o " (reading 'stack')"),
              message |-> message, value |-> Null, consumed |-> consumed1]
    ELSE [threw |-> FALSE, exc |-> Undef,
          message |-> IF Replaces(call) THEN Get(call.v, "value") ELSE message,
          value |-> Indented(self, ValueOf(call)),
          consumed |-> consumed1 \cup ConsumedBy(call)]

\* _runStringifier without its first statement: the key is not marked
_runStringifierUnmarked(self, entry, key, stringifier, consumed, message) ==
    RunStringifierBody(self, consumed, message,
                       TryStringifier(self, entry, key, stringifier))

\* Runs a stringifier.  Appends any keys consumed to `consumed`.
_runStringifier(self, entry, key, stringifier, consumed, message) ==
    RunStringifierBody(self, consumed \cup {key}, message,
                       TryStringifier(self, entry, key, stringifier))

---------------------------------------------------------------------------
(* The entries a logger hands over                                         *)

\* 15 Aug, 15:40:16: the time of the test suite's entry
TestTime == DateV(226 * 86400 + 15 * 3600 + 40 * 60 + 16)

\* {level, msg, name: 'proc', pid: 19, time} and more fields after them
Entry(level, msg, more) ==
    Obj(<< <<"level", level>>, <<"msg", msg>>, <<"name", Str("proc")>>,
           <<"pid", Num(19)>>, <<"time", TestTime>> >> \o more)

\* bunyan's levels, a level a caller defined, and no level
BuiltinLevels == {Num(10), Num(20), Num(30), Num(40), Num(50), Num(60)}

ReqObject ==
    Obj(<< <<"headers", Obj(<< <<"host", Str("foo.com")>> >>)>>,
           <<"method", Str("GET")>>, <<"url", Str("/index.html")>>,
           <<"user", Obj(<< <<"name", Str("dave")>> >>)>> >>)

ResObject ==
    Obj(<< <<"headers", Obj(<< <<"content-length", Num(500)>> >>)>>,
           <<"responseTime", Num(100)>>, <<"statusCode", Num(404)>> >>)

\* The entries that arrive as objects.
ObjectEntries ==
    \* the test suite's entry, at every built-in level
    {Entry(l, Str("Hello World"), <<>>) : l \in BuiltinLevels}
    \* with fields for the prefixers, and fields no transform is set for
    \cup {Entry(l, Str("Hello World"),
                << <<"p1", Str("a")>>, <<"p2", Str("b")>>, <<"extra", Str("x\ny")>>,
                   <<"count", Num(7)>> >>) : l \in {Num(30), Num(50)}}
    \* a level that is not bunyan's, and an entry without a level
    \cup {Entry(Num(35), Str("custom"), << <<"p1", Str("a")>> >>),
          Entry(Undef, Str("no level"), << <<"extra", Str("x")>> >>)}
    \* the entries of the prefixer tests: nothing but an account and a msg
    \cup {Obj(<< <<"account", Obj(<< <<"name", Str("hello")>> >>)>>,
                 <<"msg", Str("world")>> >>),
          Obj(<< <<"account", Null>>, <<"msg", Str("world")>> >>)}
    \* a source location, an error, and metadata of every kind
    \cup {Entry(Num(40), Str("two\nlines"),
                << <<"src", Obj(<< <<"file", Str("/p/lib/index.js")>>,
                                   <<"line", Num(12)>>, <<"func", Str("go")>> >>)>>,
                   <<"extra", Obj(<< <<"a", Num(1)>> >>)>>,
                   <<"constructor", Str("c")>>, <<"fn", FnV>>,
                   <<"nothing", Null>>, <<"account", Str("acme")>>,
                   <<"p1", Str("a")>>,
                   <<"note", Str("a value too long for the terminal")>>,
                   <<"a-field-with-quite-a-long-name", Str("value")>> >>),
          Entry(Num(20), Str("bad metadata"), << <<"loop", Circular>> >>)}
    \* a request and its response, without a message and with one
    \cup {Obj(<< <<"level", Num(30)>>, <<"name", Str("proc")>>, <<"pid", Num(19)>>,
                 <<"time", TestTime>>, <<"req", ReqObject>>, <<"res", ResObject>>,
                 <<"p1", Str("a")>>, <<"p2", Str("b")>> >>),
          Entry(Num(30), Str("hello"),
                << <<"method", Str("GET")>>, <<"status-code", Num(200)>>,
                   <<"url", Str("/index.html")>>, <<"res-headers", Arr(<<>>)>>,
                   <<"req", Obj(<< <<"headers", Obj(<< <<"host", Str("foo.com")>> >>)>>,
                                   <<"method", Str("GET")>>,
                                   <<"url", Str("/index.html")>> >>)>>,
                   <<"body", Str("b")>>, <<"duration", Num(3)>> >>)}

\* The entries that arrive as JSON text: the text bunyan writes for an
\* entry, and texts that are not JSON.
TextSources ==
    {Entry(Num(30), Str("Hello World"), <<>>),
     Entry(Num(50), Str("Hello World"), << <<"p1", Str("a")>>, <<"extra", Str("x")>> >>)}
WellFormedTexts == {Str(JsonText(e)) : e \in TextSources}
MalformedTexts == {Str("not json"), Str("{\"msg\":")}
TextEntries == WellFormedTexts \cup MalformedTexts

Entries == ObjectEntries \cup TextEntries

\* JSON.parse(text): the object whose JSON text it is (the table of them
\* is worked out once), a SyntaxError for a text that is no value's.
ParseTable == {<<JsonText(e), JsonSafe(e)>> : e \in ObjectEntries \cup TextSources}
JSONparse(text) ==
    IF \E p \in ParseTable : p[1] = text
    THEN Ok((CHOOSE p \in ParseTable : p[1] = text)[2])
    ELSE Throw(ErrorV("SyntaxError", "Unexpected token in JSON"))

---------------------------------------------------------------------------
(* BunyanDebugStream._entryToString                                        *)

\* The locals of a render as it starts: the message, the consumed fields,
\* the side values, the prefixes, and the _runStringifier calls made.
StartRender(entry) ==
    [threw |-> FALSE, exc |-> Undef,
     message |-> Get(entry, "msg"),
     consumed |-> Range(FIELDS_TO_IGNORE),
     values |-> <<>>, prefixes |-> <<>>, calls |-> <<>>]

\* The locals after the call `r` of _runStringifier for `key`: message
\* and value taken from it, the value pushed to values or to prefixes.
Collect(self, key, transform, prefixer, acc, r) ==
    [threw |-> r.threw, exc |-> r.exc,
     message |-> r.message,
     consumed |-> r.consumed,
     values |-> IF ~r.threw /\ ~IsNullish(r.value) /\ ~prefixer
                THEN Append(acc.values, self.indent \o key \o ": " \o r.value.s)
                ELSE acc.values,
     prefixes |-> IF ~r.threw /\ ~IsNullish(r.value) /\ prefixer
                  THEN Append(acc.prefixes, r.value.s)
                  ELSE acc.prefixes,
     calls |-> Append(acc.calls,
                 [key |-> key, transform |-> transform, prefixer |-> prefixer,
                  messageIn |-> acc.message, consumedIn |-> acc.consumed,
                  threw |-> r.threw, message |-> r.message, value |-> r.value,
                  consumed |-> r.consumed])]

\* One turn of the loop, for `key` and its transform: the transform is run
\* when the entry has the field, and the field is consumed anyway.
RunEntry(self, entry, key, transform, prefixer, acc) ==
    IF ~IsNullish(Get(entry, key))
    THEN Collect(self, key, transform, prefixer, acc,
                 _runStringifier(self, entry, key, transform, acc.consumed,
                                 acc.message))
    ELSE [acc EXCEPT !.consumed = @ \cup {key}]

RECURSIVE RunTable(_, _, _, _, _, _)
\* Run our stringifiers (the table of them), then our prefixers (theirs):
\* the loop over table[i..], from the locals `acc`.
RunTable(self, entry, table, prefixer, i, acc) ==
    IF i > Len(table) \/ acc.threw THEN acc
    ELSE RunTable(self, entry, table, prefixer, i + 1,
                  RunEntry(self, entry, table[i][1], table[i][2], prefixer, acc))

RECURSIVE DumpMetadata(_, _, _, _)
\* Use JSON.stringify on whatever is left: the loop over the entry's
\* fields from the i-th on.
DumpMetadata(self, entry, i, acc) ==
    IF i > Len(entry.f) \/ acc.threw THEN acc
    ELSE
        LET key == entry.f[i][1]
            json == JSONstringify(entry.f[i][2])
            \* Make sure value isn't too long.
            cols == self.cols
            start == self.indent \o key \o ": "
            valueString ==
                IF cols # 0 /\ Len(json.v.s) + Len(start) >= cols
                THEN Slice0(json.v.s, cols - 3 - Len(start)) \o "..."
                ELSE json.v.s
        IN  \* Skip fields we don't care about
            IF IsConsumed(acc.consumed, key)
                THEN DumpMetadata(self, entry, i + 1, acc)
            ELSE IF json.threw
                THEN [acc EXCEPT !.threw = TRUE, !.exc = json.exc]
            ELSE IF IsNullish(json.v)
                THEN DumpMetadata(self, entry, i + 1, acc)
            ELSE DumpMetadata(self, entry, i + 1,
                    [acc EXCEPT !.values = Append(@, start \o valueString)])

\* The function a caller gives as showDate: time => time.toISOString()
showDateFn(time, entry) ==
    IF time.t = "date" THEN Ok(Str(toISOString(time)))
    ELSE Throw(ErrorV("TypeError", "time.toISOString is not a function"))

\* What a render that threw leaves.
Failed(exc, parsed, acc) ==
    [threw |-> TRUE, exc |-> exc, line |-> "", entry |-> parsed,
     message |-> acc.message, consumed |-> acc.consumed, values |-> acc.values,
     prefixes |-> acc.prefixes, calls |-> acc.calls,
     date |-> "", processStr |-> "", levelPrefix |-> "", src |-> "",
     joinedPrefixes |-> ""]

\* colorsToApply: this._colors[entry.level != null ? entry.level : bunyan.INFO],
\* undefined for a level the table has no colors for.
colorsToApplyOf(self, entry) ==
    LET level == Get(entry, "level")
        key == IF ~IsNullish(level) THEN ToStr(level) ELSE NumToStr(BunyanLevel.INFO)
    IN  IF key \in DOMAIN self.colors THEN ColorList(self.colors[key]) ELSE NoColorList

\* if (src) { src += ': ' }
withColon(src) == IF src # "" THEN src \o ": " ELSE src

\* src is the filename/line number
srcOf(self, entry) ==
    withColon(srcToString(Get(entry, "src"), self.basepath,
                          self.options.basepathReplacement))

\* joinedPrefixes with a space after each comma
joinedPrefixesSpaced(prefixes) ==
    IF Len(prefixes) > 0 THEN "[" \o Join(prefixes, ", ") \o "] " ELSE ""

\* joinedPrefixes
joinedPrefixesOf(prefixes) ==
    IF Len(prefixes) > 0 THEN "[" \o Join(prefixes, ",") \o "] " ELSE ""

\* date with the clock's time for every entry, whatever time it carries
dateOfClock(self, entry, clock) ==
    LET custom == showDateFn(Get(entry, "time"), entry)
    IN  IF Truthy(self.showDate) /\ self.showDate.t = "function"
            THEN (IF custom.threw THEN custom ELSE Ok(ToStr(custom.v) \o " "))
        ELSE IF Truthy(self.showDate)
            THEN Ok(ToStr(dateToString(DateV(clock))) \o " ")
        ELSE Ok("")

\* date: a completion, as the caller's function may throw
dateOf(self, entry, clock) ==
    LET time == Get(entry, "time")
        custom == showDateFn(time, entry)
    IN  IF Truthy(self.showDate) /\ self.showDate.t = "function"
            THEN (IF custom.threw THEN custom ELSE Ok(ToStr(custom.v) \o " "))
        ELSE IF Truthy(self.showDate)
            THEN Ok(ToStr(dateToString(IF ~IsNullish(time) THEN time
                                       ELSE DateV(clock))) \o " ")
        ELSE Ok("")

\* processStr
processStrOf(self, entry) ==
    LET str == (IF Truthy(self.options.showProcess) THEN self.processName ELSE "")
               \o (IF self.showLoggerName THEN ToStr(Get(entry, "name")) ELSE "")
               \o (IF self.showPid THEN "[" \o ToStr(Get(entry, "pid")) \o "]" ELSE "")
    IN  IF Len(str) > 0 THEN str \o " " ELSE str

\* levelPrefix
levelPrefixOf(self, entry) ==
    LET key == ToStr(Get(entry, "level"))
    IN  IF self.showLevel
        THEN (IF key \in DOMAIN LEVELS THEN LEVELS[key].prefix ELSE "      ") \o " "
        ELSE ""

\* lineOf with the level tag put before the header
lineOfTagFirst(date, processStr, levelPrefix, src, joinedPrefixes, message, values) ==
    LET line == date \o levelPrefix \o processStr \o src \o joinedPrefixes \o message
    IN  IF Len(values) > 0 THEN line \o "\n" \o Join(values, "\n") ELSE line

\* line, from the parts and the message and side values as colorized
lineOf(date, processStr, levelPrefix, src, joinedPrefixes, message, values) ==
    LET line == date \o processStr \o levelPrefix \o src \o joinedPrefixes \o message
    IN  IF Len(values) > 0 THEN line \o "\n" \o Join(values, "\n") ELSE line

\* The side values, each in the colors of the entry's level: completions
coloredSides(self, entry, values) ==
    [i \in 1..Len(values) |->
        applyColors(Str(values[i]), colorsToApplyOf(self, entry), self.chalkLevel)]

\* What _entryToString returns, the parts of the line at hand: the locals
\* `acc`, the date, and the message and the side values as colorized (the
\* last three completions).
Compose(self, entry, acc, date, colored, sides) ==
    IF date.threw THEN Failed(date.exc, entry, acc)
    ELSE IF colored.threw THEN Failed(colored.exc, entry, acc)
    ELSE IF \E i \in 1..Len(sides) : sides[i].threw
        THEN Failed(sides[1].exc, entry, acc)
    ELSE [threw |-> FALSE, exc |-> Undef,
          line |-> lineOf(date.v, processStrOf(self, entry),
                          levelPrefixOf(self, entry), srcOf(self, entry),
                          joinedPrefixesOf(acc.prefixes), ToStr(colored.v),
                          [i \in 1..Len(sides) |-> sides[i].v.s]),
          entry |-> entry,
          message |-> acc.message, consumed |-> acc.consumed,
          values |-> acc.values, prefixes |-> acc.prefixes, calls |-> acc.calls,
          date |-> date.v, processStr |-> processStrOf(self, entry),
          levelPrefix |-> levelPrefixOf(self, entry), src |-> srcOf(self, entry),
          joinedPrefixes |-> joinedPrefixesOf(acc.prefixes)]

\* _entryToString from `if (this._showMetadata)` on, the locals `acc` as
\* the stringifiers and prefixers left them
AfterTransforms(self, entry, clock, acc) ==
    IF acc.threw THEN Failed(acc.exc, entry, acc)
    ELSE Compose(self, entry, acc, dateOf(self, entry, clock),
                 applyColors(acc.message, colorsToApplyOf(self, entry),
                             self.chalkLevel),
                 coloredSides(self, entry, acc.values))

\* The metadata dump, when the stream shows metadata
Metadata(self, entry, acc) ==
    IF self.showMetadata THEN DumpMetadata(self, entry, 1, acc) ELSE acc

\* _entryToString for an entry that is an object
RenderEntry(self, entry, clock) ==
    AfterTransforms(self, entry, clock,
        Metadata(self, entry,
            RunTable(self, entry, self.prefixers, TRUE, 1,
                RunTable(self, entry, self.stringifiers, FALSE, 1,
                         StartRender(entry)))))

\* _entryToString for a text, `parse` being what JSON.parse made of it
RenderParsed(self, parse, clock) ==
    IF parse.threw THEN Failed(parse.exc, Undef, StartRender(Obj(<<>>)))
    ELSE RenderEntry(self, parse.v, clock)

\* _entryToString(entry) on the stream `self`, the clock at `clock`: the
\* line it returns, with the locals it is built from, or what it throws.
_entryToString(self, entry0, clock) ==
    IF entry0.t = "string" THEN RenderParsed(self, JSONparse(entry0.s), clock)
    ELSE RenderEntry(self, entry0, clock)

---------------------------------------------------------------------------
(* The options a caller constructs the stream with                         *)

\* The options of `create({})`: every one of them undefined.
NoOptions ==
    [colors |-> Undef, forceColor |-> Undef, basepath |-> Undef,
     basepathReplacement |-> Undef, showProcess |-> Undef, showDate |-> Undef,
     processName |-> Undef, maxExceptionLines |-> Undef,
     stringifiers |-> <<>>, prefixers |-> <<>>, indent |-> Undef,
     showLoggerName |-> Undef, showPid |-> Undef, showLevel |-> Undef,
     showMetadata |-> Undef, showPrefixes |-> Undef]

\* The process: its working directory, its command line, the columns of
\* its terminal (0: process.stdout.columns is undefined), and the level
\* chalk found the terminal to support.
Env(cols, chalkLevel) ==
    [cwd |-> "/p", argv |-> <<"/usr/bin/node", "/p/bin/server.js">>,
     cols |-> cols, chalkLevel |-> chalkLevel]

\* The column width of the terminal, when it has one
TermCols == 30

\* Looks: the display options of the test suites, and one that sets them all.
\* generateLogEntry's: no colors, the rest as it defaults
PlainProfile == [o |-> [NoOptions EXCEPT !.colors = Null], e |-> Env(0, 0)]
\* the prefixer tests': no colors, no date, level, logger name or pid
BareProfile ==
    [o |-> [NoOptions EXCEPT !.colors = Bool(FALSE), !.showDate = Bool(FALSE),
                             !.showLevel = Bool(FALSE),
                             !.showLoggerName = Bool(FALSE),
                             !.showPid = Bool(FALSE)],
     e |-> Env(0, 0)]
Profiles ==
    {PlainProfile, BareProfile,
     \* the defaults, on a terminal with colors
     [o |-> NoOptions, e |-> Env(TermCols, 1)],
     \* a date function, the process name, colors of the caller's, an indent
     [o |-> [NoOptions EXCEPT !.showDate = FnV, !.showProcess = Bool(TRUE),
                              !.forceColor = Bool(TRUE), !.indent = Str("> "),
                              !.basepath = Str("/p/lib"),
                              !.colors = Obj(<< <<"info", Str("magenta")>>,
                                                <<"50", ArrStr(<<"red", "bold">>)>>,
                                                <<"silly", Str("grey")>> >>)],
      e |-> Env(TermCols, 0)]}

\* Results a transform may return, and values it may throw
ReplacingResult == Structured(ArrStr(<<"count", "p2">>), Str("E"), Bool(TRUE))
SideResult == Structured(ArrStr(<<"count", "p2">>), Str("S\nT"), Undef)
EmptyResult == Structured(ArrStr(<<"count">>), Undef, Bool(TRUE))
Boom == ErrorV("Error", "boom")

\* The stringifier tables a caller may give
StringifierTables ==
    {<<>>,
     << <<"extra", NullTr>> >>,
     << <<"extra", Tr("const", Null)>> >>,
     << <<"extra", Tr("const", Undef)>>, <<"absent", Tr("identity", Null)>> >>,
     << <<"extra", Tr("identity", Null)>> >>,
     << <<"extra", Tr("const", ReplacingResult)>> >>,
     << <<"extra", Tr("const", SideResult)>> >>,
     << <<"extra", Tr("const", EmptyResult)>> >>,
     << <<"extra", Tr("throw", Boom)>> >>,
     << <<"extra", Tr("throw", Str("boom"))>> >>,
     << <<"extra", Tr("throw", Null)>> >>,
     << <<"count", Tr("double", Null)>>, <<"req", NullTr>> >>}

\* The prefixer tables a caller may give
PrefixerTables ==
    {<<>>,
     << <<"p1", Tr("identity", Null)>>, <<"p2", Tr("double", Null)>> >>,
     << <<"account", Tr("name", Null)>> >>,
     << <<"account", Tr("const", Null)>>, <<"p1", Tr("const", Undef)>> >>,
     << <<"account", NullTr>>, <<"p1", Tr("const", Null)>> >>,
     << <<"p1", Tr("throw", Boom)>>, <<"p2", Tr("identity", Null)>> >>,
     << <<"p1", Tr("const", ReplacingResult)>>, <<"p2", Tr("const", SideResult)>> >>}

\* The tables a caller gives together: each stringifier table alone, each
\* prefixer table alone, and tables of both kinds that act on one entry.
TransformSetups ==
    {<<st, <<>> >> : st \in StringifierTables}
    \cup {<< <<>>, pt>> : pt \in PrefixerTables}
    \cup {<< << <<"extra", Tr("const", ReplacingResult)>> >>,
             << <<"p1", Tr("identity", Null)>>, <<"p2", Tr("double", Null)>> >> >>,
          << << <<"extra", Tr("throw", Boom)>> >>,
             << <<"p1", Tr("const", ReplacingResult)>>, <<"p2", NullTr>> >> >>,
          << << <<"extra", NullTr>>, <<"p1", Tr("identity", Null)>> >>,
             << <<"p1", Tr("identity", Null)>>, <<"extra", Tr("identity", Null)>> >> >>}

\* The constructor call for a look, tables, and the two options given
Config(pr, ts, showMetadata, showPrefixes) ==
    [options |-> [pr.o EXCEPT !.stringifiers = ts[1], !.prefixers = ts[2],
                              !.showMetadata = showMetadata,
                              !.showPrefixes = showPrefixes],
     env |-> pr.e]

\* Every constructor call of the model: each look with each of the tables;
\* the test suites' looks also without metadata, and, where there are
\* prefixers, with showPrefixes given.
Configs ==
    {Config(pr, ts, Undef, Undef) : pr \in Profiles, ts \in TransformSetups}
    \cup {Config(pr, ts, Bool(FALSE), Undef) :
            pr \in {PlainProfile, BareProfile}, ts \in TransformSetups}
    \cup {Config(pr, ts, Undef, sp) :
            pr \in {PlainProfile, BareProfile},
            ts \in {t \in TransformSetups : t[2] # <<>>},
            sp \in {Bool(FALSE), FnV}}

\* The constructor calls of the stream runs: the looks, and a prefixer.
StreamConfigs ==
    {[options |-> [pr.o EXCEPT !.prefixers = pt], env |-> pr.e] :
        pr \in Profiles,
        pt \in {<<>>, << <<"p1", Tr("identity", Null)>>, <<"p2", Tr("throw", Null)>> >>}}

\* The chunks of the stream runs
StreamChunks ==
    {Entry(Num(30), Str("Hello World"), <<>>),
     Entry(Num(50), Str("Hello World"),
           << <<"p1", Str("a")>>, <<"p2", Str("b")>>, <<"extra", Str("x\ny")>>,
              <<"count", Num(7)>> >>),
     Entry(Num(35), Str("custom"), << <<"p1", Str("a")>> >>),
     Obj(<< <<"account", Null>>, <<"msg", Str("world")>> >>)}
    \cup TextEntries

---------------------------------------------------------------------------
(* Bounds                                                                  *)

\* How many chunks a run writes to the stream
MaxWrites == 3
\* How many direct calls of _entryToString a run makes
MaxRenders == 1
\* How many seconds the clock advances in a run
MaxTicks == 1
\* The clock as a run starts: 6 Nov, 10:30:21
StartClock == 309 * 86400 + 10 * 3600 + 30 * 60 + 21

---------------------------------------------------------------------------
(* The stream                                                              *)

NoRender == Failed(Undef, Undef, StartRender(Obj(<<>>)))

InitWith(configs) ==
    /\ cfg \in configs
    /\ opts = Constructor(cfg.options, cfg.env)
    /\ now = StartClock
    /\ written = <<>>
    /\ buffered = <<>>
    /\ writing = FALSE
    /\ sink = <<>>
    /\ sinkReady = TRUE
    /\ doneCalls = 0
    /\ events = <<>>
    /\ thrown = ""
    /\ renders = 0
    /\ lastEntry = Undef
    /\ last = NoRender

Init == InitWith(StreamConfigs)

InitRender == InitWith(Configs)

\* this._out.write(text): the sink takes the text and answers whether it
\* is ready for more; a sink that is not stays so until it drains.
SinkAnswers == IF sinkReady THEN {TRUE, FALSE} ELSE {FALSE}

\* _write once this._entryToString(entry) has returned or thrown (`r`)
writeRendered(entry, n, ready, r) ==
    /\ lastEntry' = entry
    /\ last' = r
    /\ IF r.threw
       THEN /\ thrown' = ToStr(Get(r.exc, "message"))
            /\ events' = Append(events, <<"throw", n>>)
            \* Writable set state.writing before the call, and only
            \* done() clears it
            /\ writing' = TRUE
            /\ UNCHANGED <<sink, sinkReady, doneCalls>>
       ELSE /\ sink' = Append(sink, r.line \o "\n")
            /\ sinkReady' = ready
            /\ doneCalls' = doneCalls + 1
            /\ events' = events \o << <<"render", n>>, <<"sink", n>>, <<"done", n>> >>
            /\ thrown' = ""
            /\ writing' = FALSE

\* _write(entry, _encoding, done) for the n-th chunk, the sink answering
\* `ready`: the render, the write to the sink, done(); a render that
\* throws leaves _write before either.
_write(entry, n, ready) == writeRendered(entry, n, ready, _entryToString(opts, entry, now))

\* stream.write(chunk), as the logger calls it for each record: Writable
\* hands the chunk to _write at once, unless a _write is still open (its
\* done() not called), and then buffers it.
Write ==
    \E chunk \in StreamChunks, ready \in SinkAnswers :
        /\ Len(written) < MaxWrites
        /\ written' = Append(written, chunk)
        /\ IF writing
           THEN /\ buffered' = Append(buffered, chunk)
                /\ thrown' = ""
                /\ UNCHANGED <<sink, sinkReady, doneCalls, events, writing,
                               lastEntry, last>>
           ELSE /\ _write(chunk, Len(written) + 1, ready)
                /\ UNCHANGED buffered
        /\ UNCHANGED <<cfg, opts, now, renders>>

\* The sink emits 'drain': it is ready again.
SinkDrain ==
    /\ ~sinkReady
    /\ sinkReady' = TRUE
    /\ UNCHANGED <<cfg, opts, now, written, buffered, writing, sink, doneCalls,
                   events, thrown, renders, lastEntry, last>>

\* Time passes.
Tick ==
    /\ now < StartClock + MaxTicks
    /\ now' = now + 1
    /\ UNCHANGED <<cfg, opts, written, buffered, writing, sink, sinkReady,
                   doneCalls, events, thrown, renders, lastEntry, last>>

\* stream._entryToString(entry), as the test suites call it.
Render ==
    \E entry \in Entries :
        /\ renders < MaxRenders
        /\ renders' = renders + 1
        /\ lastEntry' = entry
        /\ last' = _entryToString(opts, entry, now)
        /\ UNCHANGED <<cfg, opts, now, written, buffered, writing, sink,
                       sinkReady, doneCalls, events, thrown>>

Next == Write \/ SinkDrain \/ Tick

Spec == Init /\ [][Next]_vars

NextRender == Render \/ Tick

SpecRender == InitRender /\ [][NextRender]_vars

---------------------------------------------------------------------------
(* The stream adapter: claims C1, C8, C9                                   *)

\* The chunks a render fails on (the clock has no part in that).
RenderFails(chunk) == _entryToString(opts, chunk, StartClock).threw

RECURSIVE EventsOfWrites(_)
\* What n completed _write calls leave in `events`, in program order.
EventsOfWrites(n) ==
    IF n = 0 THEN <<>>
    ELSE EventsOfWrites(n - 1) \o << <<"render", n>>, <<"sink", n>>, <<"done", n>> >>

\* C1: for every sequence of entries written to the stream, the sink has
\* received exactly one write per entry, in arrival order, each the
\* rendered text of that entry followed by one newline; done() was called
\* exactly once per entry, after that entry's sink write and before the
\* next entry is rendered; nothing is buffered across entries.
C1_OneWritePerEntry ==
    /\ Len(sink) = Len(written)
    /\ doneCalls = Len(written)
    /\ buffered = <<>>
    /\ events = EventsOfWrites(Len(written))
    /\ \A i \in 1..Len(written) :
          i <= Len(sink) =>
            \E c \in StartClock..now :
                LET r == _entryToString(opts, written[i], c)
                IN  ~r.threw /\ sink[i] = r.line \o "\n"

\* C8: an entry whose rendering fails does not abort or stall the stream:
\* every well-formed entry written after it is still rendered, written to
\* the sink and has its completion signalled.
C8_LaterEntriesStillWritten ==
    \A i \in 1..Len(written) :
        (/\ ~RenderFails(written[i])
         /\ \E j \in 1..(i - 1) : RenderFails(written[j]))
        => /\ <<"sink", i>> \in Range(events)
           /\ <<"done", i>> \in Range(events)

\* C9: the adapter honors the sink's backpressure: when the sink's write
\* for an entry answers that it is not ready, done() is not called for
\* that entry, and no next write is made, until the sink is ready again.
C9_HonorsBackpressure ==
    [][/\ doneCalls' # doneCalls => sinkReady'
       /\ sink' # sink => sinkReady]_vars

---------------------------------------------------------------------------
(* The header line: claim C2                                               *)

\* A render was made and returned a line.
Rendered == renders > 0 /\ ~last.threw

\* The display options are the defaults, and colors are disabled.
DefaultDisplayNoColors ==
    /\ cfg.options.colors \in {Null, Bool(FALSE)}
    /\ \A o \in {"showDate", "showProcess", "showLoggerName", "showPid",
                 "showLevel", "basepath", "indent"} : cfg.options[o] = Undef

\* The entry rendered has one of the six built-in levels.
BuiltinLevel(entry) ==
    Get(entry, "level") \in BuiltinLevels

C2Case == Rendered /\ DefaultDisplayNoColors /\ BuiltinLevel(last.entry)

\* The date text of the entry: its time, or the clock's as it was rendered
DateTexts(entry) ==
    IF ~IsNullish(Get(entry, "time"))
    THEN {dateToString(Get(entry, "time")).s}
    ELSE {dateToString(DateV(c)).s : c \in StartClock..now}

\* The source annotation of the entry
SrcAnnotation(entry) ==
    LET src == srcToString(Get(entry, "src"), opts.basepath, Undef)
    IN  IF src = "" THEN "" ELSE src \o ": "

\* C2: for every entry with one of the six built-in levels, rendered with
\* colors disabled and default options, the line is, in this order, the
\* date text and a space, logger name + '[' + pid + ']' and a space, the
\* level's 6-character tag and a space, the source annotation (with ': '
\* when non-empty), the prefix segment, and the message; side values, when
\* there are any, follow after a line break, one per line, and the result
\* has no trailing newline.
C2_FirstLineComposition ==
    C2Case =>
        LET entry == last.entry
            header == ToStr(Get(entry, "name")) \o "[" \o ToStr(Get(entry, "pid")) \o "]"
            tag == LEVELS[ToStr(Get(entry, "level"))].prefix
        IN  /\ Len(tag) = 6
            /\ \E dateText \in DateTexts(entry) :
                 LET first == dateText \o " " \o header \o " " \o tag \o " "
                              \o SrcAnnotation(entry) \o last.joinedPrefixes
                              \o ToStr(last.message)
                 IN  last.line = IF last.values = <<>> THEN first
                                 ELSE first \o "\n" \o Join(last.values, "\n")
            /\ ~endsWith(last.line, "\n")

\* A built-in level entry with a source annotation, a prefix and side
\* values was rendered with the default display, colors disabled.
C2_Witness ==
    /\ C2Case
    /\ SrcAnnotation(last.entry) # ""
    /\ last.joinedPrefixes # ""
    /\ Len(last.values) > 1

---------------------------------------------------------------------------
(* Transforms that throw, hide, and consume: claims C3, C4, C5             *)

\* The calls of _runStringifier the last render made, in order
Calls == IF renders > 0 THEN Range(last.calls) ELSE {}

\* The description of a thrown value: an error's message, else its text
Description(e) == IF e.t \in {"object", "error"} THEN ToStr(Get(e, "message")) ELSE ToStr(e)

\* C3: whatever value a transform throws, _runStringifier does not
\* propagate the failure: it returns normally, the message is the one
\* passed in, the value is a non-null diagnostic string that contains the
\* failure's description, and the field name is marked consumed.
C3_ThrowingTransformContained ==
    \A c \in Calls :
        c.transform.kind = "throw" =>
            /\ ~c.threw
            /\ c.message = c.messageIn
            /\ c.value.t = "string"
            /\ Contains(c.value.s, Description(c.transform.ret))
            /\ c.key \in c.consumed

\* The transform is configured as null, or returns null or undefined for
\* the field of the entry rendered.
Hides(c) ==
    \/ c.transform.kind = "null"
    \/ LET r == CallTransform(c.transform, Get(last.entry, c.key), last.entry, opts)
       IN  ~r.threw /\ IsNullish(r.v)

\* The sequence of the elements of `calls` that left a value to show,
\* of the prefixers or of the stringifiers
ShownCalls(prefixer) ==
    SelectSeq(last.calls, LAMBDA c : c.prefixer = prefixer /\ ~IsNullish(c.value))

\* The side values that follow those of the stringifiers: the metadata dump
MetadataLines ==
    SubSeq(last.values, Len(ShownCalls(FALSE)) + 1, Len(last.values))

\* The lines of the metadata dump for the field `key`
LinesFor(key) ==
    {j \in 1..Len(MetadataLines) :
        LET start == opts.indent \o key \o ": "
        IN  /\ Len(MetadataLines[j]) >= Len(start)
            /\ SubSeq(MetadataLines[j], 1, Len(start)) = start}

\* The stream as it is but for the transform of call c: a null in the
\* table where a function that returns null is, and the reverse
SwapHidden(c) ==
    LET other == IF c.transform.kind = "null" THEN Tr("const", Null) ELSE NullTr
        swap(table) == [i \in 1..Len(table) |->
                          IF table[i][1] = c.key THEN <<c.key, other>> ELSE table[i]]
    IN  IF c.prefixer THEN [opts EXCEPT !.prefixers = swap(@)]
        ELSE [opts EXCEPT !.stringifiers = swap(@)]

\* C4: a field that is present and whose stringifier or prefixer is
\* configured as null, or returns null or undefined, contributes nothing
\* through it: the call leaves no value and the message as it was, no
\* side-value line and no prefix element is added for it, the field is in
\* the consumed set and has no line in the metadata dump; and the output
\* is the same with null configured as with a transform returning null.
C4_HiddenFieldContributesNothing ==
    Rendered =>
        /\ Len(last.values) >= Len(ShownCalls(FALSE))
        /\ Len(last.prefixes) = Len(ShownCalls(TRUE))
        /\ \A c \in Calls :
            Hides(c) =>
                /\ IsNullish(c.value)
                /\ c.message = c.messageIn
                /\ c.key \in c.consumed /\ c.key \in last.consumed
                /\ LinesFor(c.key) = {}
                /\ \A clock \in StartClock..now :
                     LET r1 == _entryToString(opts, lastEntry, clock)
                         r2 == _entryToString(SwapHidden(c), lastEntry, clock)
                     IN  ~r2.threw /\ r1.line = r2.line

\* A field was hidden by a null in the table, another by a function, and
\* the metadata dump has lines for other fields.
C4_Witness ==
    /\ Rendered
    /\ opts.showMetadata
    /\ Len(MetadataLines) > 0
    /\ \E c \in Calls : c.transform.kind = "null"
    /\ \E c \in Calls : c.transform.kind # "null" /\ Hides(c)

\* The value has a JSON text
Serializes(v) ==
    LET json == JSONstringify(v) IN ~json.threw /\ ~IsNullish(json.v)

\* The fields the tables name, and those a transform's result lists
ConfiguredKeys ==
    {opts.stringifiers[i][1] : i \in 1..Len(opts.stringifiers)}
    \cup {opts.prefixers[i][1] : i \in 1..Len(opts.prefixers)}
ListedKeys(c) ==
    LET r == CallTransform(c.transform, Get(last.entry, c.key), last.entry, opts)
        list == IF c.transform.kind = "null" \/ r.threw THEN Undef
                ELSE Get(r.v, "consumed")
    IN  IF IsNullish(list) THEN {} ELSE {ToStr(list.f[i][2]) : i \in 1..Len(list.f)}

\* C5: with showMetadata enabled, the dump has no line for a field in the
\* consumed set; the consumed set holds the nine boring fields, every
\* field name with a configured stringifier or prefixer, and every name a
\* transform's result lists; every field of the entry outside the consumed
\* set whose value serializes is dumped exactly once; and the consumed
\* set only grows during a render.
C5_MetadataDumpMatchesConsumedSet ==
    (Rendered /\ opts.showMetadata) =>
        /\ \A k \in last.consumed : LinesFor(k) = {}
        /\ Range(FIELDS_TO_IGNORE) \cup ConfiguredKeys \subseteq last.consumed
        /\ \A c \in Calls :
            /\ ListedKeys(c) \subseteq last.consumed
            /\ c.consumedIn \subseteq c.consumed /\ c.consumed \subseteq last.consumed
        /\ \A k \in KeySet(last.entry) \ last.consumed :
            Serializes(Get(last.entry, k)) => Cardinality(LinesFor(k)) = 1

---------------------------------------------------------------------------
(* The prefix segment: claims C6, C7                                       *)

\* The outputs of the prefixers, in the order they are configured
PrefixerOutputs ==
    [i \in 1..Len(ShownCalls(TRUE)) |-> ShownCalls(TRUE)[i].value.s]

\* The side values the stringifiers left, as _entryToString words them
StringifierSides ==
    [i \in 1..Len(ShownCalls(FALSE)) |->
        opts.indent \o ShownCalls(FALSE)[i].key \o ": " \o ShownCalls(FALSE)[i].value.s]

\* The message as the line shows it: in the colors of the entry's level
ShownMessage ==
    ToStr(applyColors(last.message, colorsToApplyOf(opts, last.entry),
                      opts.chalkLevel).v)

\* The side values as the line shows them, each after a line break
ShownSides ==
    LET text(i) == ToStr(applyColors(Str(last.values[i]),
                                     colorsToApplyOf(opts, last.entry),
                                     opts.chalkLevel).v)
    IN  IF last.values = <<>> THEN ""
        ELSE "\n" \o Join([i \in 1..Len(last.values) |-> text(i)], "\n")

\* The line up to the side values ends with `segment` and the message
EndsWithSegmentAndMessage(segment) ==
    /\ endsWith(last.line, ShownSides)
    /\ endsWith(SubSeq(last.line, 1, Len(last.line) - Len(ShownSides)),
                segment \o ShownMessage)

\* C6: with the default prefix display, the prefix segment, placed
\* immediately before the message, is '[' + the non-null prefixer outputs
\* joined by ',' in configured order + '] ' when a prefixer produced a
\* non-null value and empty otherwise, also when the prefixed field is
\* absent or null in the entry; prefixer outputs are never side values.
C6_DefaultPrefixSegment ==
    (Rendered /\ cfg.options.showPrefixes = Undef) =>
        LET segment == IF PrefixerOutputs = <<>> THEN ""
                       ELSE "[" \o Join(PrefixerOutputs, ",") \o "] "
        IN  /\ last.joinedPrefixes = segment
            /\ EndsWithSegmentAndMessage(
                 last.date \o last.processStr \o last.levelPrefix \o last.src
                 \o segment)
            /\ \A i \in 1..Len(opts.prefixers) :
                 IsNullish(Get(last.entry, opts.prefixers[i][1]))
                 => \A c \in Calls : ~(c.prefixer /\ c.key = opts.prefixers[i][1])
            /\ SubSeq(last.values, 1, Len(StringifierSides)) = StringifierSides
            /\ \A j \in 1..Len(MetadataLines) :
                 \E k \in KeySet(last.entry) \ ConfiguredKeys : j \in LinesFor(k)

\* Two prefixers produced outputs, a stringifier a side value, and the
\* metadata dump a line, with the default prefix display.
C6_Witness ==
    /\ Rendered
    /\ cfg.options.showPrefixes = Undef
    /\ Len(PrefixerOutputs) = 2
    /\ Len(StringifierSides) > 0
    /\ Len(MetadataLines) > 0

\* showPrefixes as the test suite gives it: prefixes => `{${prefixes.join('; ')}}`
showPrefixesFn(prefixes) == "{" \o Join(prefixes, "; ") \o "}"

\* C7: showPrefixes determines the prefix segment: a function's return
\* value for the ordered list of prefixer outputs takes the place of the
\* bracket form, and false leaves no segment at all; the prefixers still
\* run and their fields are consumed.
C7_ShowPrefixesDecidesSegment ==
    Rendered =>
        /\ (cfg.options.showPrefixes = FnV /\ PrefixerOutputs # <<>>)
           => EndsWithSegmentAndMessage(
                last.date \o last.processStr \o last.levelPrefix \o last.src
                \o showPrefixesFn(PrefixerOutputs) \o " ")
        /\ cfg.options.showPrefixes = Bool(FALSE)
           => last.line = last.date \o last.processStr \o last.levelPrefix
                          \o last.src \o ShownMessage \o ShownSides
        /\ \A i \in 1..Len(opts.prefixers) : opts.prefixers[i][1] \in last.consumed

---------------------------------------------------------------------------
(* Levels that are not bunyan's: claim C10                                 *)

\* No function of the caller's failed in the render: no transform threw
\* out of _runStringifier, nor did showDate.
CallerFunctionsReturned ==
    /\ \A c \in Calls : ~c.threw
    /\ ~dateOf(opts, last.entry, now).threw

\* C10: for every entry whose level is absent or is not one of the six
\* built-in severities, rendering completes without failure, the message
\* and side values are colorized with the 'info' level's color list, and
\* the level tag is six spaces followed by the separator space.
C10_UnknownLevelRendersAsInfo ==
    (/\ renders > 0
     /\ last.entry.t = "object"
     /\ ~BuiltinLevel(last.entry)
     /\ CallerFunctionsReturned)
    => LET info == ColorList(opts.colors[NumToStr(BunyanLevel.INFO)])
           paint(text) == ToStr(applyColors(text, info, opts.chalkLevel).v)
       IN  /\ ~last.threw
           /\ opts.showLevel => last.levelPrefix = "       "
           /\ last.line = lineOf(last.date, last.processStr, last.levelPrefix,
                                 last.src, last.joinedPrefixes, paint(last.message),
                                 [i \in 1..Len(last.values) |->
                                    paint(Str(last.values[i]))])

---------------------------------------------------------------------------
(* A transform that throws an Error, in a whole render: claim C11          *)

\* The stream as it is but for the transform of call c, configured as null
HideTransform(c) ==
    LET hide(table) == [i \in 1..Len(table) |->
                          IF table[i][1] = c.key THEN <<c.key, NullTr>> ELSE table[i]]
    IN  IF c.prefixer THEN [opts EXCEPT !.prefixers = hide(@)]
        ELSE [opts EXCEPT !.stringifiers = hide(@)]

\* The side-value line of call c: indent, field name, ': ', the value
SideLine(c) == opts.indent \o c.key \o ": " \o ToStr(c.value)

\* The sequence without its elements equal to x
Without(seq, x) == SelectSeq(seq, LAMBDA e : e # x)

\* The transform of call c threw an Error object.
ThrewError(c) == c.transform.kind = "throw" /\ c.transform.ret.t = "error"

\* C11: when a configured stringifier or prefixer throws (an Error) in a
\* render that returns, the diagnostic string is emitted as that
\* field's side value, an indented line after the header line and no part
\* of the prefix segment; the message is what it was before the transform
\* ran; and the message, the prefixes and the other side values are those
\* of the render with the failing field hidden.
C11_ThrowDiagnosticIsSideValue ==
    \A c \in Calls :
        Rendered /\ ThrewError(c) =>
            /\ c.message = c.messageIn
            /\ \E i \in 1..Len(last.values) : last.values[i] = SideLine(c)
            /\ \A i \in 1..Len(last.prefixes) : last.prefixes[i] # c.value.s
            /\ ~Contains(last.joinedPrefixes, "Error running stringifier")
            /\ LET hidden == _entryToString(HideTransform(c), lastEntry, now)
               IN  /\ ~hidden.threw
                   /\ hidden.message = last.message
                   /\ hidden.prefixes = last.prefixes
                   /\ hidden.values = Without(last.values, SideLine(c))

---------------------------------------------------------------------------
(* Request entries: the runs that render them                              *)

\* The messages of request entries: none, the empty one, bunyan-middleware's
\* 'request finish', the same in other letters, and a message of the caller
ReqMsgs ==
    {Undef, Str(""), Str("request finish"), Str("Request Finish"), Str("hello")}

\* The req objects: the test suite's; one without headers or user; one
\* without a url
ReqObjects ==
    {ReqObject,
     Obj(<< <<"method", Str("POST")>>, <<"url", Str("/a")>> >>),
     Obj(<< <<"headers", Obj(<< <<"host", Str("foo.com")>> >>)>>,
            <<"method", Str("GET")>> >>)}

\* The res objects: none; the test suite's; one of a response without a
\* body, served at once, its status not recorded
ResObjects ==
    {Undef, ResObject,
     Obj(<< <<"headers", Obj(<< <<"content-length", Num(0)>> >>)>>,
            <<"responseTime", Num(0)>> >>)}

\* The flattened fields beside req and res: none; express-bunyan-logger's;
\* bunyan-middleware's duration; and some of each with a user
FlatFields ==
    {<<>>,
     << <<"method", Str("GET")>>, <<"status-code", Num(201)>>,
        <<"url", Str("/index.html")>>,
        <<"res-headers", Obj(<< <<"content-length", Str("12")>> >>)>>,
        <<"response-time", Num(5)>>, <<"body", Str("b")>> >>,
     << <<"duration", Num(3)>> >>,
     << <<"status-code", Num(500)>>, <<"duration", Num(3)>>,
        <<"response-time", Num(5)>>, <<"user", Str("bob")>> >>}

\* The entry of a request: bunyan's fields, the message when there is one,
\* req, res when there is one, and the flattened fields
ReqEntryOf(msg, req, res, flat) ==
    Obj(<< <<"level", Num(30)>>, <<"name", Str("proc")>>, <<"pid", Num(19)>>,
           <<"time", TestTime>> >>
        \o (IF msg = Undef THEN <<>> ELSE << <<"msg", msg>> >>)
        \o << <<"req", req>> >>
        \o (IF res = Undef THEN <<>> ELSE << <<"res", res>> >>)
        \o flat)

ReqEntries ==
    {ReqEntryOf(msg, req, res, flat) :
        msg \in ReqMsgs, req \in ReqObjects, res \in ResObjects, flat \in FlatFields}

\* The defaults, on a terminal with colors
ColorProfile == [o |-> NoOptions, e |-> Env(TermCols, 1)]

\* The constructor calls of the request runs: no table of the caller's, so
\* that stdStringifiers.req is the transform of req; without and with colors
ReqConfigs ==
    {Config(pr, << <<>>, <<>> >>, Undef, Undef) : pr \in {PlainProfile, ColorProfile}}

InitReq == InitWith(ReqConfigs)

\* stream._entryToString(entry) for a request entry
RenderReq ==
    \E entry \in ReqEntries :
        /\ renders < MaxRenders
        /\ renders' = renders + 1
        /\ lastEntry' = entry
        /\ last' = _entryToString(opts, entry, now)
        /\ UNCHANGED <<cfg, opts, now, written, buffered, writing, sink,
                       sinkReady, doneCalls, events, thrown>>

\* The request entries carry their time: the clock has no part in the runs.
NextReq == RenderReq

SpecReq == InitReq /\ [][NextReq]_vars

---------------------------------------------------------------------------
(* The request summary: claims C12, C13, C14                               *)

\* The calls of stdStringifiers.req the last render made
ReqCalls == {c \in Calls : c.transform.kind = "req"}

\* What stdStringifiers.req returns for the entry last rendered
ReqResult ==
    stdStringifiersReq(Get(last.entry, "req"), last.entry, opts.useColor,
                       opts.chalkLevel)

\* The text of a value, nothing for an absent one
TextOf(v) == IF IsNullish(v) THEN "" ELSE ToStr(v)

\* The first of the values that is not absent, undefined when all are
FirstPresent(vs) ==
    IF \E i \in 1..Len(vs) : ~IsNullish(vs[i])
    THEN vs[CHOOSE i \in 1..Len(vs) :
                /\ ~IsNullish(vs[i])
                /\ \A j \in 1..(i - 1) : IsNullish(vs[j])]
    ELSE Undef

\* The components of the summary as the entry's fields give them, an
\* absent source value giving no text: METHOD, [user@]host+path, STATUS,
\* RESPONSE_TIME 'ms', '- ' CONTENT_LENGTH ' bytes'
ReqComponents(entry) ==
    LET req == Get(entry, "req")
        res == Get(entry, "res")
        who == FirstPresent(<<Get(req, "user"), Get(entry, "user")>>)
        name == FirstPresent(<<Get(who, "username"), Get(who, "name"), who>>)
        status == FirstPresent(<<Get(res, "statusCode"), Get(entry, "status-code")>>)
        time == FirstPresent(<<Get(res, "responseTime"), Get(entry, "duration"),
                               Get(entry, "response-time")>>)
        length == FirstPresent(<<Get(Get(res, "headers"), "content-length"),
                                 Get(Get(entry, "res-headers"), "content-length")>>)
        paint(text) ==
            IF opts.useColor
            THEN chalkApply("bold",
                    chalkApply(IF status.n < 200 THEN "grey"
                               ELSE IF status.n < 400 THEN "green" ELSE "red",
                               text, opts.chalkLevel),
                    opts.chalkLevel)
            ELSE text
    IN  << TextOf(Get(req, "method")),
           (IF IsNullish(name) THEN "" ELSE ToStr(name) \o "@")
              \o TextOf(Get(Get(req, "headers"), "host")) \o TextOf(Get(req, "url")),
           IF IsNullish(status) THEN "" ELSE paint(ToStr(status)),
           IF IsNullish(time) THEN "" ELSE ToStr(time) \o "ms",
           IF IsNullish(length) THEN "" ELSE "- " \o ToStr(length) \o " bytes" >>

\* C12: for every request entry, the value of the req stringifier is the
\* components METHOD, [user@]host+path, STATUS, RESPONSE_TIME + 'ms' and
\* '- ' + CONTENT_LENGTH + ' bytes', in that order, joined by single
\* spaces, every component whose source value is absent left out entirely,
\* with no placeholder text and no doubled space; the status is
\* res.statusCode in preference to the flattened 'status-code'; and with
\* color disabled the value contains no escape sequence.
C12_RequestSummary ==
    \A c \in ReqCalls :
        LET summary == ToStr(Get(ReqResult, "value"))
        IN  /\ summary = Join(SelectSeq(ReqComponents(last.entry),
                                        LAMBDA t : t # ""), " ")
            /\ ~Contains(summary, "undefined")
            /\ ~Contains(summary, "  ")
            /\ ~opts.useColor => ~Contains(summary, "ESC[")

\* The entry has no message, or an empty one, or bunyan-middleware's
NoMessageOfItsOwn(entry) ==
    \/ IsNullish(Get(entry, "msg"))
    \/ Get(entry, "msg") \in {Str(""), Str("request finish")}

\* C13: the req stringifier returns replaceMessage = true exactly when
\* entry.msg is absent (or empty) or equals 'request finish', in these
\* very letters, and false otherwise; so in a whole render the summary
\* takes the message's place in the first case, and in the second is the
\* 'req' side-value line, the message being the entry's.
C13_SummaryReplacesMessage ==
    Rendered =>
        \A c \in ReqCalls :
            LET summary == Get(ReqResult, "value")
                side == opts.indent \o "req: " \o ToStr(summary)
            IN  /\ Get(ReqResult, "replaceMessage")
                      = Bool(NoMessageOfItsOwn(last.entry))
                \* the line shows the message, then the side values
                /\ EndsWithSegmentAndMessage("")
                /\ NoMessageOfItsOwn(last.entry) =>
                      /\ c.message = summary /\ last.message = summary
                      /\ IsNullish(c.value)
                      /\ \A i \in 1..Len(last.values) : last.values[i] # side
                /\ ~NoMessageOfItsOwn(last.entry) =>
                      /\ c.message = Get(last.entry, "msg")
                      /\ last.message = Get(last.entry, "msg")
                      /\ c.value = summary
                      /\ last.values # <<>> /\ last.values[1] = side

\* A request entry whose message is 'Request Finish' was rendered: the
\* message stayed, and the summary is the first of several side values.
C13_Witness ==
    /\ Rendered /\ ReqCalls # {}
    /\ Get(last.entry, "msg") = Str("Request Finish")
    /\ last.message = Str("Request Finish")
    /\ Len(last.values) > 1

\* The names the consumed list of stdStringifiers.req holds for the entry
\* last rendered
ReqConsumedList ==
    {ToStr(Elems(Get(ReqResult, "consumed"))[i]) :
        i \in 1..Len(Get(ReqResult, "consumed").f)}

\* The entry has what express-bunyan-logger flattens into it.
ExpressFlattened(entry) ==
    \A f \in {"status-code", "method", "url", "res-headers"} :
        ~IsNullish(Get(entry, f))

\* C14: for every request entry, the consumed list of the req stringifier
\* always contains 'req' and 'res'; it contains the fixed flattened field
\* names ('body', 'method', 'url', 'status-code', 'res-headers' and the
\* others) exactly when the entry has non-absent 'status-code', 'method',
\* 'url' and 'res-headers'; the response time shown is res.responseTime,
\* else 'duration', else 'response-time'; the list contains 'duration'
\* only when res.responseTime is absent and duration is present, and
\* 'response-time' only when both others are absent and it is present.
\* Every name of the list is consumed in the render.
C14_RequestConsumedList ==
    \A c \in ReqCalls :
        LET entry == last.entry
            resTime == Get(Get(entry, "res"), "responseTime")
            time == FirstPresent(<<resTime, Get(entry, "duration"),
                                   Get(entry, "response-time")>>)
            list == ReqConsumedList
            summary == ToStr(Get(ReqResult, "value"))
        IN  /\ {"req", "res"} \subseteq list
            /\ \A f \in {"remote-address", "ip", "method", "url", "referer",
                         "user-agent", "body", "short-body", "http-version",
                         "response-hrtime", "status-code", "req-headers",
                         "res-headers", "incoming", "req_id"} :
                 f \in list <=> ExpressFlattened(entry)
            /\ IF IsNullish(time)
               THEN ~Contains(summary, "ms")
               ELSE Contains(summary, " " \o ToStr(time) \o "ms")
            /\ "duration" \in list
                 <=> IsNullish(resTime) /\ ~IsNullish(Get(entry, "duration"))
            /\ "response-time" \in list
                 <=> /\ IsNullish(resTime) /\ IsNullish(Get(entry, "duration"))
                     /\ ~IsNullish(Get(entry, "response-time"))
            /\ list \subseteq c.consumed
            /\ ~last.threw => list \subseteq last.consumed

\* An entry of express-bunyan-logger's was rendered whose response time is
\* its 'response-time', and whose 'body' has no line of its own.
C14_Witness ==
    /\ Rendered /\ ReqCalls # {}
    /\ ExpressFlattened(last.entry)
    /\ {"body", "response-time"} \subseteq ReqConsumedList
    /\ "duration" \notin ReqConsumedList
    /\ LinesFor("body") = {}

---------------------------------------------------------------------------
(* Rendering the same entry again: claim C15                               *)

\* The date text of the entry is the clock's: showDate is on, is no
\* function of the caller's, and the entry carries no time.
DateFromClock(entry) ==
    /\ Truthy(opts.showDate) /\ opts.showDate.t # "function"
    /\ IsNullish(Get(entry, "time"))

\* What a render leaves besides the line and its date text
RenderState(r) ==
    [threw |-> r.threw, exc |-> r.exc, entry |-> r.entry, message |-> r.message,
     consumed |-> r.consumed, values |-> r.values, prefixes |-> r.prefixes,
     calls |-> r.calls, processStr |-> r.processStr,
     levelPrefix |-> r.levelPrefix, src |-> r.src,
     joinedPrefixes |-> r.joinedPrefixes]

---------------------------------------------------------------------------
(* What _runStringifier makes of a transform's result: claim C16           *)

\* What the transform of call c returns for the field of the entry
ResultOf(c) ==
    CallTransform(c.transform, Get(last.entry, c.key), last.entry, opts)

\* The transform of call c is a function that returns a string, or an
\* object.
ReturnsResult(c) ==
    /\ c.transform.kind \notin {"null", "throw"}
    /\ ResultOf(c).v.t \in {"string", "object"}

\* `shown` is `raw` with the indent after each of its line breaks.
IndentedCopy(raw, shown) ==
    LET lines == Split(raw, "\n")
    IN  Split(shown, "\n")
          = [i \in 1..Len(lines) |->
               IF i = 1 THEN lines[i] ELSE opts.indent \o lines[i]]

\* C16: for every transform result that is not a throw, _runStringifier
\* returns: for a plain string s, value = s and the message unchanged; for
\* a structured result with value v and replaceMessage true, message = v
\* and value = null; with value v and replaceMessage false or absent,
\* value = v and the message unchanged; with an absent value, value = null
\* and the message unchanged; in every structured case the names of its
\* consumed list are added to the consumed set; and a value that is not
\* null has the indent after each of its line breaks.
C16_RunStringifierResultShapes ==
    \A c \in Calls :
        ReturnsResult(c) =>
            LET result == ResultOf(c).v
                v == Get(result, "value")
                replace == Get(result, "replaceMessage")
                listed == IF IsNullish(Get(result, "consumed")) THEN {}
                          ELSE {Elems(Get(result, "consumed"))[i].s :
                                  i \in 1..Len(Get(result, "consumed").f)}
            IN  /\ ~c.threw
                /\ result.t = "string" =>
                      /\ IndentedCopy(result.s, c.value.s)
                      /\ c.message = c.messageIn
                      /\ c.consumed = c.consumedIn \cup {c.key}
                /\ result.t = "object" =>
                      /\ c.consumed = c.consumedIn \cup {c.key} \cup listed
                      /\ (~IsNullish(v) /\ replace = Bool(TRUE)) =>
                            c.message = v /\ c.value = Null
                      /\ (~IsNullish(v) /\ replace \in {Bool(FALSE), Undef}) =>
                            /\ IndentedCopy(v.s, c.value.s)
                            /\ c.message = c.messageIn
                      /\ IsNullish(v) =>
                            c.value = Null /\ c.message = c.messageIn

\* In one render a transform's value took the message's place, the names
\* it listed were consumed, and another's value of two lines became a
\* value.
C16_Witness ==
    /\ Rendered
    /\ \E c \in Calls :
         /\ ReturnsResult(c) /\ ResultOf(c).v.t = "object"
         /\ c.message # c.messageIn /\ c.value = Null
         /\ c.consumed # c.consumedIn \cup {c.key}
    /\ \E c \in Calls :
         /\ ReturnsResult(c) /\ ResultOf(c).v.t = "object"
         /\ c.message = c.messageIn
         /\ Len(Split(c.value.s, "\n")) = 2

---------------------------------------------------------------------------
(* Metadata lines on a terminal: claim C17                                 *)

\* C17: for every column width, indent, field name and serialized value
\* of the metadata dump: when indent + name + ': ' + serialized value has
\* a length of cols or more, the side-value line is truncated to fit: it
\* keeps the indent-and-name prefix, ends with '...' and is no longer than
\* cols, also when the prefix alone is within 3 characters of cols, or
\* longer; otherwise the line is the untruncated one; and without a column
\* width no line is truncated.
C17_MetadataTruncatedToFit ==
    (Rendered /\ opts.showMetadata) =>
        \A k \in KeySet(last.entry) :
            \A j \in LinesFor(k) :
                LET line == MetadataLines[j]
                    start == opts.indent \o k \o ": "
                    full == start \o JSONstringify(Get(last.entry, k)).v.s
                IN  IF opts.cols # 0 /\ Len(full) >= opts.cols
                    THEN /\ SubSeq(line, 1, Len(start)) = start
                         /\ endsWith(line, "...")
                         /\ Len(line) <= opts.cols
                    ELSE line = full

---------------------------------------------------------------------------
(* The order of the transforms and the message they leave: claim C18       *)

\* The transforms of the stream in the order the loops take them: the
\* stringifiers' table, then the prefixers'
Steps ==
    [i \in 1..Len(opts.stringifiers) |->
        [key |-> opts.stringifiers[i][1], transform |-> opts.stringifiers[i][2],
         prefixer |-> FALSE]]
    \o [i \in 1..Len(opts.prefixers) |->
        [key |-> opts.prefixers[i][1], transform |-> opts.prefixers[i][2],
         prefixer |-> TRUE]]

\* The transform the caller configured for the field, if any
Configured(table, key, builtin) ==
    IF \E i \in 1..Len(table) : table[i][1] = key
    THEN table[CHOOSE i \in 1..Len(table) : table[i][1] = key][2]
    ELSE builtin

\* The transform of call c returned a value to take the message's place.
ReturnsReplacement(c) ==
    /\ ReturnsResult(c) /\ ResultOf(c).v.t = "object"
    /\ ~IsNullish(Get(ResultOf(c).v, "value"))
    /\ Truthy(Get(ResultOf(c).v, "replaceMessage"))

\* C18: within a render the transforms run in a fixed order: all
\* stringifiers (req, err, then the caller's in configured order, an
\* override of req or err keeping the built-in's place), then all
\* prefixers in configured order, each only when its field is present and
\* not absent, and then even when an earlier transform declared the field
\* consumed; each receives the message its predecessors left; and the
\* message rendered is the value of the last transform that returned a
\* non-absent value with replaceMessage true, or entry.msg if there is
\* none.
C18_TransformOrderAndMessage ==
    Rendered =>
        LET user == cfg.options.stringifiers
            others == SelectSeq(user, LAMBDA p : p[1] \notin {"req", "err"})
            ran == SelectSeq(Steps, LAMBDA s : ~IsNullish(Get(last.entry, s.key)))
            calls == last.calls
            replacing == {i \in 1..Len(calls) : ReturnsReplacement(calls[i])}
        IN  /\ opts.stringifiers
                 = << <<"req", Configured(user, "req", Tr("req", Null))>>,
                      <<"err", Configured(user, "err", Tr("err", Null))>> >>
                   \o others
            /\ opts.prefixers = cfg.options.prefixers
            /\ Len(calls) = Len(ran)
            /\ \A i \in 1..Len(calls) :
                 /\ calls[i].key = ran[i].key
                 /\ calls[i].transform = ran[i].transform
                 /\ calls[i].prefixer = ran[i].prefixer
                 /\ calls[i].messageIn = IF i = 1 THEN Get(last.entry, "msg")
                                         ELSE calls[i - 1].message
            /\ last.message =
                 IF replacing = {} THEN Get(last.entry, "msg")
                 ELSE Get(ResultOf(calls[CHOOSE i \in replacing :
                                            \A j \in replacing : j <= i]).v,
                          "value")

\* In one render the request summary took the message's place, then a
\* prefixer's value took the summary's, and a prefixer ran for a field an
\* earlier transform had listed as consumed.
C18_Witness ==
    /\ Rendered
    /\ \E i, j \in 1..Len(last.calls) :
         /\ i < j
         /\ ~last.calls[i].prefixer /\ last.calls[j].prefixer
         /\ ReturnsReplacement(last.calls[i]) /\ ReturnsReplacement(last.calls[j])
         /\ last.message = last.calls[j].message
         /\ last.message # last.calls[i].message
    /\ \E i, j \in 1..Len(last.calls) :
         i < j /\ last.calls[j].key \in ListedKeys(last.calls[i])

=============================================================================
